---- MODULE Spec2Model ----
(***************************************************************************)
(* The Julia-set kernel of Cython/Cython.ipynb: escape, calc_julia (the    *)
(* prange version as a state machine of the calling thread and the OpenMP  *)
(* team, the serial version as the loops it runs) and julia_fraction.      *)
(*                                                                         *)
(* Numbers.  The code computes in C doubles.  Every input drawn here is a  *)
(* dyadic rational of small magnitude and every intermediate value stays   *)
(* one (Exact below restricts the inputs so that step is dyadic too), so   *)
(* double arithmetic is exact on them and is modelled by exact arithmetic  *)
(* on normalised fractions [num, den].                                     *)
(*                                                                         *)
(* Granularity.  A thread's step is one pass of escape's loop, or the exit *)
(* of the loop together with the store to counts and the thread-private    *)
(* set-up of the next cell; only the store touches shared memory.          *)
(*                                                                         *)
(* The other cells.  The caller that calls calc_julia several times, the   *)
(* prange sum cell, the thread-id cell, the three versions of fib and the  *)
(* local_buf example of the slides each have their own variables and their *)
(* own specification; a specification leaves the other variables alone.    *)
(***************************************************************************)
EXTENDS Integers, Sequences, FiniteSets, TLC

\* ------------------------------------------------------------------ bounds
MaxRes == 2
MaxIter == 2
MaxThreads == 2
MaxDim == 3
MaxCalls == 2
MaxN == 4
MaxTeam == 3
MaxFib == 80
BufSize == 2

\* ------------------------------------------------------- double arithmetic
\* (functions rather than operators: an argument is evaluated once)
Abs(n) == IF n < 0 THEN 0 - n ELSE n

Gcd[a \in Nat, b \in Nat] == IF b = 0 THEN a ELSE Gcd[b, a % b]

Doubles == [num : Int, den : Nat]

\* the double with value n/d (d # 0), as a normalised fraction
Rat[n \in Int, d \in Int] ==
    LET g == Gcd[Abs(n), Abs(d)]
    IN  IF d < 0
        THEN [num |-> 0 - (n \div g), den |-> 0 - (d \div g)]
        ELSE [num |-> n \div g, den |-> d \div g]

FromInt[n \in Int] == [num |-> n, den |-> 1]

Zero == FromInt[0]

Lcm[a \in Nat, b \in Nat] == (a \div Gcd[a, b]) * b

RAdd[a \in Doubles, b \in Doubles] ==
    LET l == Lcm[a.den, b.den]
    IN  Rat[a.num * (l \div a.den) + b.num * (l \div b.den), l]

RNeg[a \in Doubles] == [num |-> 0 - a.num, den |-> a.den]

RSub[a \in Doubles, b \in Doubles] == RAdd[a, RNeg[b]]

RMul[a \in Doubles, b \in Doubles] == Rat[a.num * b.num, a.den * b.den]

\* a / n for a C int n # 0 (the caller tests n = 0 first, as Cython does)
RDivInt[a \in Doubles, n \in Int] == Rat[a.num, a.den * n]

RLess[a \in Doubles, b \in Doubles] ==
    LET l == Lcm[a.den, b.den]
    IN  a.num * (l \div a.den) < b.num * (l \div b.den)

IsPow2[d \in Nat] ==
    IF d = 1 THEN TRUE ELSE IF d % 2 # 0 THEN FALSE ELSE IsPow2[d \div 2]

\* representable exactly as a double (within the magnitudes used here)
IsDyadic[a \in Doubles] == IsPow2[a.den]

\* double complex
Complexes == [re : Doubles, im : Doubles]

Cplx[re \in Doubles, im \in Doubles] == [re |-> re, im |-> im]

CAdd[x \in Complexes, y \in Complexes] == Cplx[RAdd[x.re, y.re], RAdd[x.im, y.im]]

CMul[x \in Complexes, y \in Complexes] ==
    Cplx[RSub[RMul[x.re, y.re], RMul[x.im, y.im]],
         RAdd[RMul[x.re, y.im], RMul[x.im, y.re]]]

\* ------------------------------------------------------------- the kernel
\* mutant: the squared magnitude without the imaginary part
norm2_re_only(z) == RMul[z.re, z.re]

\* mutant: the square of the radius is not taken
ZMax2_unsquared(zm) == zm

\* mutant: real and imaginary part change places
MakeZ_swapped(re, im) == Cplx[im, re]

\* cdef inline double norm2(double complex z)
norm2(z) == RAdd[RMul[z.re, z.re], RMul[z.im, z.im]]

\* mutant: the recurrence without its constant term
Recurrence_no_c(z, cc) == CMul[z, z]

\* the body of escape's loop: z = z * z + c
Recurrence(z, cc) == CAdd[CMul[z, z], cc]

\* double z_max2 = z_max * z_max
ZMax2(zm) == RMul[zm, zm]

\* mutant: the value after the n_max-th application is tested too, and a
\* point still inside gets one more application
ContinueTest_late(z, i, zm, nm) == RLess[norm2(z), ZMax2(zm)] /\ i <= nm

\* mutant: the loop goes on while norm2(z) <= z_max2
ContinueTest_le(z, i, zm, nm) == ~RLess[ZMax2(zm), norm2(z)] /\ i < nm

\* the while condition of escape: norm2(z) < z_max2 and i < n_max
ContinueTest(z, i, zm, nm) == RLess[norm2(z), ZMax2(zm)] /\ i < nm

\* real = -bound + i * step   (and imag = -bound + j * step)
Coord(b, k, st) == RAdd[RNeg[b], RMul[FromInt[k], st]]

\* z = real + imag * 1j
MakeZ(re, im) == Cplx[re, im]

\* double step = 2.0 * bound / resolution   (resolution # 0)
StepOf(b, res) == RDivInt[RMul[FromInt[2], b], res]

\* escape, lines 393-398, as the value it returns: the while loop from (z, i)
RECURSIVE escape_loop(_, _, _, _, _)
escape_loop(z, i, cc, zm, nm) ==
    IF ContinueTest(z, i, zm, nm)
    THEN escape_loop(Recurrence(z, cc), i + 1, cc, zm, nm)
    ELSE i

\* cdef int escape(double complex z, double complex c, double z_max, int n_max)
escape(z, cc, zm, nm) == escape_loop(z, 0, cc, zm, nm)

\* lines 417-421 for one cell: the value calc_julia stores in counts[i, j]
cell_value(res, cc, b, zm, nm, i, j) ==
    LET st == StepOf(b, res)
    IN  escape(MakeZ(Coord(b, i, st), Coord(b, j, st)), cc, zm, nm)

\* mutant: the field allocated with resolution rows and columns
zeros_short(N, M) == [i \in 0..(N - 2) |-> [j \in 0..(M - 2) |-> 0]]

\* np.zeros((N, M), dtype=np.int32)
zeros(N, M) == [i \in 0..(N - 1) |-> [j \in 0..(M - 1) |-> 0]]

\* mutant: the first chunk is skipped
FirstRow_skip(t) == t + 1

\* mutant: every thread walks every following row (the loop is not shared out)
NextRow_unshared(i, T) == i + 1

\* prange(..., schedule='static', chunksize=1): thread t of a team of T runs
\* iterations t, t + T, t + 2T, ...
FirstRow(t) == t

NextRow(i, T) == i + T

Owner(i, T) == i % T

\* ----------------------------------------------------------------- inputs
Resolutions == (0 - 2)..MaxRes

Bounds == {FromInt[1], Rat[3, 2], FromInt[2]}

Cs == {Cplx[FromInt[0], FromInt[0]], Cplx[FromInt[0], FromInt[1]]}

ZMaxs == {FromInt[0 - 2], FromInt[0], FromInt[2], FromInt[4]}

NMaxs == (0 - 1)..MaxIter

Threads == 0..(MaxThreads - 1)

\* the thread numbers of the teams of the parallel blocks
TeamIds == 0..(MaxTeam - 1)

\* the inputs on which double arithmetic is exact: step is a dyadic rational
Exact(res, b) == IF res = 0 THEN TRUE ELSE IsDyadic[StepOf(b, res)]

None == "none"

\* the empty memoryview / field
NoField == <<>>

VARIABLES
    resolution, c, bound, z_max, n_max,  \* the arguments of calc_julia
    nthreads,                            \* size of the OpenMP team
    pc,                                  \* position of the calling thread
    step,                                \* cdef double step
    counts,                              \* the int[:, ::1] memoryview
    exc,                                 \* the exception raised, if any
    wk,                                  \* per thread: position and private i, j, real, imag, z, escape's i
    nwrites,                             \* history: stores made to each cell of counts
    maxval,                              \* julia_fraction: int maxval
    total,                               \* julia_fraction: cdef int total (the reduction variable)
    fpc,                                 \* julia_fraction: position of the calling thread
    fwk,                                 \* julia_fraction: per thread, position and private copy of total
    fnext,                               \* julia_fraction: first iteration of the prange not yet handed out
    fraction                             \* julia_fraction: the value returned

\* the variables of julia_fraction (counts, nthreads and exc are shared)
fvars == <<maxval, total, fpc, fwk, fnext, fraction>>

\* the caller of calc_julia over several calls
VARIABLES
    cargs,                               \* the argument objects the caller holds
    cpc,                                 \* position of the caller
    heap,                                \* the buffers numpy has allocated, by address
    jl                                   \* the calls made: their arguments and the array returned

callvars == <<cargs, cpc, heap, jl>>

\* the prange sum cell
VARIABLES
    sum_pc,                              \* position of the thread that runs the cell
    loop_n,                              \* cdef int n
    sum,                                 \* cdef int sum (the reduction variable)
    sum_priv,                            \* per thread: position and private copy of sum
    sum_todo,                            \* the iterations of the prange not yet run
    sum_sched,                           \* how the runtime hands out iterations
    printed                              \* what print(sum) wrote

sumvars == <<sum_pc, loop_n, sum, sum_priv, sum_todo, sum_sched, printed>>

\* the thread-id cell
VARIABLES
    tid_pc,                              \* per thread: position in the parallel block
    num_threads,                         \* cdef int num_threads, one copy per slot
    thread_id,                           \* cdef int thread_id, one copy per slot
    out                                  \* the lines printf wrote to stdout

tidvars == <<tid_pc, num_threads, thread_id, out>>

\* the fib cells
VARIABLES
    fib_pc,                              \* which version runs, or done
    fib_n,                               \* the argument n
    fib_i,                               \* the loop variable i
    fib_a,                               \* a
    fib_b,                               \* b
    fib_ret                              \* the value each version returned

fibvars == <<fib_pc, fib_n, fib_i, fib_a, fib_b, fib_ret>>

\* the local_buf example of the slides
VARIABLES
    buf_pc,                              \* per thread: position in the parallel block
    local_buf,                           \* cdef int * local_buf, one copy per slot
    mem,                                 \* the blocks malloc has handed out
    buf_i,                               \* per thread: the loop variable i
    buf_todo,                            \* the iterations of the prange not yet run
    aborted                              \* abort() was called

bufvars == <<buf_pc, local_buf, mem, buf_i, buf_todo, aborted>>

\* the variables of the other cells of the notebook and of the slides
ovars == <<callvars, sumvars, tidvars, fibvars, bufvars>>

vars == <<resolution, c, bound, z_max, n_max, nthreads, pc, step, counts, exc, wk, nwrites, fvars, ovars>>

\* the variables only calc_julia uses
cvars == <<resolution, c, bound, z_max, n_max, pc, step, wk, nwrites>>

args == <<resolution, c, bound, z_max, n_max, nthreads>>

\* the variables of the Julia-set kernel, the team size apart
kvars == <<cvars, counts, exc, fvars>>

IdleWorker ==
    [pc |-> "idle", i |-> 0, j |-> 0, real |-> Zero, imag |-> Zero,
     z |-> Cplx[Zero, Zero], n |-> 0]

\* the arguments the caller passes when it calls calc_julia several times
CallArgs ==
    {a \in [resolution : 0..2, c : Cs, bound : {FromInt[1], Rat[3, 2]},
            z_max : {FromInt[2]}, n_max : {2}] :
        a.resolution = 0 => (a.c = Cplx[Zero, Zero] /\ a.bound = FromInt[1])}

InitCalls ==
    /\ cargs = [resolution |-> 1, c |-> Cplx[Zero, Zero], bound |-> FromInt[1],
                z_max |-> FromInt[2], n_max |-> 2]
    /\ cpc = "bind"
    /\ heap = <<>>
    /\ jl = <<>>

InitSum ==
    /\ sum_pc = "start"
    /\ loop_n = 0
    /\ sum = 0
    /\ sum_priv = [t \in Threads |-> [pc |-> "idle", part |-> 0]]
    /\ sum_todo = {}
    /\ sum_sched = "static"
    /\ printed = None

InitTid ==
    /\ tid_pc = [t \in TeamIds |-> "idle"]
    /\ num_threads = [t \in TeamIds |-> 0]
    /\ thread_id = [t \in TeamIds |-> 0]
    /\ out = <<>>

InitFib ==
    /\ fib_pc = "call"
    /\ fib_n = 0
    /\ fib_i = 0
    /\ fib_a = [hi |-> 0, lo |-> 0]
    /\ fib_b = [hi |-> 0, lo |-> 0]
    /\ fib_ret = [py |-> None, c |-> None, cy |-> None]

\* a null pointer (block addresses start at 1)
NULL == 0

InitBuf ==
    /\ buf_pc = [t \in TeamIds |-> "idle"]
    /\ local_buf = [t \in TeamIds |-> NULL]
    /\ mem = <<>>
    /\ buf_i = [t \in TeamIds |-> 0]
    /\ buf_todo = {}
    /\ aborted = FALSE

\* the notebook before the cell that calls calc_julia: nothing is bound yet
\* (the argument variables hold placeholders until Call binds them)
Init ==
    /\ resolution = 1
    /\ c = Cplx[Zero, Zero]
    /\ bound = Rat[3, 2]
    /\ z_max = FromInt[4]
    /\ n_max = 1
    /\ nthreads = 1
    /\ pc = "call"
    /\ step = Zero
    /\ counts = NoField
    /\ exc = None
    /\ wk = [t \in Threads |-> IdleWorker]
    /\ nwrites = NoField
    /\ maxval = 0
    /\ total = 0
    /\ fpc = "call"
    /\ fwk = [t \in Threads |-> [pc |-> "idle", part |-> 0]]
    /\ fnext = 0
    /\ fraction = Zero
    /\ InitCalls
    /\ InitSum
    /\ InitTid
    /\ InitFib
    /\ InitBuf

\* jl = calc_julia(resolution, c, bound, z_max, n_max) with a team of
\* nthreads OpenMP threads (OMP_NUM_THREADS)
Call ==
    /\ pc = "call"
    /\ resolution' \in Resolutions
    /\ c' \in Cs
    /\ bound' \in Bounds
    /\ Exact(resolution', bound')
    /\ z_max' \in ZMaxs
    /\ n_max' \in NMaxs
    /\ nthreads' \in 1..MaxThreads
    /\ pc' = "step"
    /\ UNCHANGED <<step, counts, exc, wk, nwrites, fvars, ovars>>

\* mutant: C division (cdivision=True), no test of the divisor
ComputeStep_cdivision ==
    /\ pc = "step"
    /\ step' = IF resolution = 0 THEN Zero ELSE StepOf(bound, resolution)
    /\ pc' = "alloc"
    /\ UNCHANGED <<args, counts, exc, wk, nwrites, fvars, ovars>>

\* calc_julia, line 407: the cdef initialiser of step; Cython (cdivision off)
\* tests the divisor and raises ZeroDivisionError
ComputeStep ==
    /\ pc = "step"
    /\ IF resolution = 0
       THEN /\ exc' = "ZeroDivisionError"
            /\ pc' = "raised"
            /\ step' = step
       ELSE /\ step' = StepOf(bound, resolution)
            /\ pc' = "alloc"
            /\ exc' = exc
    /\ UNCHANGED <<args, counts, wk, nwrites, fvars, ovars>>

\* mutant: a negative dimension is taken as 0 instead of being refused
Allocate_clamped ==
    /\ pc = "alloc"
    /\ counts' = zeros(resolution + 1, resolution + 1)
    /\ nwrites' = zeros(resolution + 1, resolution + 1)
    /\ pc' = "fork"
    /\ UNCHANGED <<args, step, exc, wk, fvars, ovars>>

\* calc_julia, line 413: numpy refuses a negative dimension with ValueError
Allocate ==
    /\ pc = "alloc"
    /\ IF resolution + 1 < 0
       THEN /\ exc' = "ValueError"
            /\ pc' = "raised"
            /\ UNCHANGED <<counts, nwrites>>
       ELSE /\ counts' = zeros(resolution + 1, resolution + 1)
            /\ nwrites' = zeros(resolution + 1, resolution + 1)
            /\ pc' = "fork"
            /\ exc' = exc
    /\ UNCHANGED <<args, step, wk, fvars, ovars>>

\* calc_julia, line 415: entry of the prange region; every thread of the team
\* gets its first iteration
Fork ==
    /\ pc = "fork"
    /\ wk' = [t \in Threads |->
                IF t < nthreads
                THEN [wk[t] EXCEPT !.pc = "row", !.i = FirstRow(t)]
                ELSE wk[t]]
    /\ pc' = "join"
    /\ UNCHANGED <<args, step, counts, exc, nwrites, fvars, ovars>>

\* mutant: escape as a do-while loop, the first application is made before
\* the first test
StartCell_do_while(w, j) ==
    LET im == Coord(bound, j, step)
    IN  [w EXCEPT !.j = j, !.imag = im, !.z = Recurrence(MakeZ(w.real, im), c),
                  !.n = 1, !.pc = "loop"]

\* lines 418-421 up to the call of escape, for column j of the row of worker
\* w: the inner range header, imag, z, and escape's entry (its i = 0)
StartCell(w, j) ==
    LET im == Coord(bound, j, step)
    IN  [w EXCEPT !.j = j, !.imag = im, !.z = MakeZ(w.real, im), !.n = 0,
                  !.pc = "loop"]

\* mutant: real is one variable shared by the team (the store of thread t is
\* what every thread reads afterwards)
RowBegin_shared_real(t) ==
    /\ pc = "join"
    /\ wk[t].pc = "row"
    /\ IF wk[t].i < resolution + 1
       THEN wk' = [u \in Threads |->
                     IF u = t
                     THEN StartCell([wk[t] EXCEPT !.real = Coord(bound, wk[t].i, step)], 0)
                     ELSE [wk[u] EXCEPT !.real = Coord(bound, wk[t].i, step)]]
       ELSE wk' = [wk EXCEPT ![t].pc = "done"]
    /\ UNCHANGED <<args, pc, step, counts, exc, nwrites, fvars, ovars>>

\* lines 415-420: the prange header for thread t, real = -bound + i * step
\* and the entry of the inner loop; or the end of the thread's iterations
RowBegin(t) ==
    /\ pc = "join"
    /\ wk[t].pc = "row"
    /\ IF wk[t].i < resolution + 1
       THEN wk' = [wk EXCEPT ![t] =
                      StartCell([wk[t] EXCEPT !.real = Coord(bound, wk[t].i, step)], 0)]
       ELSE wk' = [wk EXCEPT ![t].pc = "done"]
    /\ UNCHANGED <<args, pc, step, counts, exc, nwrites, fvars, ovars>>

\* mutant: the pass of the loop updates neither z nor i (it spins)
LoopStep_spin(t) ==
    /\ pc = "join"
    /\ wk[t].pc = "loop"
    /\ ContinueTest(wk[t].z, wk[t].n, z_max, n_max)
    /\ UNCHANGED vars

\* escape, lines 394-396: one pass of the while loop
LoopStep(t) ==
    /\ pc = "join"
    /\ wk[t].pc = "loop"
    /\ ContinueTest(wk[t].z, wk[t].n, z_max, n_max)
    /\ wk' = [wk EXCEPT ![t].z = Recurrence(wk[t].z, c),
                        ![t].n = wk[t].n + 1]
    /\ UNCHANGED <<args, pc, step, counts, exc, nwrites, fvars, ovars>>

\* mutant: a point that reached the cap is stored as 0 (not escaped)
LoopExit_cap_as_zero(t) ==
    /\ pc = "join"
    /\ wk[t].pc = "loop"
    /\ ~ContinueTest(wk[t].z, wk[t].n, z_max, n_max)
    /\ counts' = [counts EXCEPT ![wk[t].i][wk[t].j] =
                     IF wk[t].n = n_max THEN 0 ELSE wk[t].n]
    /\ nwrites' = [nwrites EXCEPT ![wk[t].i][wk[t].j] = @ + 1]
    /\ IF wk[t].j + 1 < resolution + 1
       THEN wk' = [wk EXCEPT ![t] = StartCell(wk[t], wk[t].j + 1)]
       ELSE wk' = [wk EXCEPT ![t].j = wk[t].j + 1,
                             ![t].i = NextRow(wk[t].i, nthreads),
                             ![t].pc = "row"]
    /\ UNCHANGED <<args, pc, step, exc, fvars, ovars>>

\* escape, lines 394 and 398, then line 421 and the inner loop header: the
\* loop test fails, escape returns i, the result is stored in counts[i, j],
\* and the thread goes on to the next column or, after the last one, to its
\* next iteration
LoopExit(t) ==
    /\ pc = "join"
    /\ wk[t].pc = "loop"
    /\ ~ContinueTest(wk[t].z, wk[t].n, z_max, n_max)
    /\ counts' = [counts EXCEPT ![wk[t].i][wk[t].j] = wk[t].n]
    /\ nwrites' = [nwrites EXCEPT ![wk[t].i][wk[t].j] = @ + 1]
    /\ IF wk[t].j + 1 < resolution + 1
       THEN wk' = [wk EXCEPT ![t] = StartCell(wk[t], wk[t].j + 1)]
       ELSE wk' = [wk EXCEPT ![t].j = wk[t].j + 1,
                             ![t].i = NextRow(wk[t].i, nthreads),
                             ![t].pc = "row"]
    /\ UNCHANGED <<args, pc, step, exc, fvars, ovars>>

\* mutant: the region ends without its barrier (a nowait return)
Join_no_barrier ==
    /\ pc = "join"
    /\ pc' = "returned"
    /\ UNCHANGED <<args, step, counts, exc, wk, nwrites, fvars, ovars>>

\* the implicit barrier that ends the prange region, then line 423
Join ==
    /\ pc = "join"
    /\ \A t \in Threads : t < nthreads => wk[t].pc = "done"
    /\ pc' = "returned"
    /\ UNCHANGED <<args, step, counts, exc, wk, nwrites, fvars, ovars>>

Worker(t) == RowBegin(t) \/ LoopStep(t) \/ LoopExit(t)

Next ==
    \/ Call
    \/ ComputeStep
    \/ Allocate
    \/ Fork
    \/ \E t \in Threads : Worker(t)
    \/ Join

Spec == Init /\ [][Next]_vars

\* ------------------------------------------------------- julia_fraction
\* mutant: the cell test as >= instead of ==
Matches_ge(v, mv) == v >= mv

\* line 435: counts[i,j] == maxval
Matches(v, mv) == v = mv

\* N = counts.shape[0]; M = counts.shape[1]
ShapeN(f) == Cardinality(DOMAIN f)

ShapeM(f) == IF DOMAIN f = {} THEN 0 ELSE Cardinality(DOMAIN f[0])

\* lines 434-436: the inner loop over row i, from column j, added to acc
RECURSIVE row_total(_, _, _, _, _, _)
row_total(f, i, j, M, mv, acc) ==
    IF j < M
    THEN row_total(f, i, j + 1, M, mv, IF Matches(f[i][j], mv) THEN acc + 1 ELSE acc)
    ELSE acc

\* the fields julia_fraction is called with: N x M, every cell base except
\* at most two cells, which hold other
FieldVals == {3, 50}

MaxVals == {3, 50, 1000}

Fields ==
    UNION {
        { [i \in 0..(N - 1) |-> [j \in 0..(M - 1) |->
              IF <<i, j>> \in S THEN other ELSE base]] :
          S \in {X \in SUBSET ((0..(N - 1)) \X (0..(M - 1))) : Cardinality(X) <= 2} }
        : <<N, M, base, other>> \in
              {q \in (0..MaxDim) \X (0..MaxDim) \X FieldVals \X FieldVals : q[3] # q[4]} }

\* julia_fraction(counts, maxval) with a team of nthreads threads; line 429
FracCall ==
    /\ fpc = "call"
    /\ counts' \in Fields
    /\ maxval' \in MaxVals
    /\ nthreads' \in 1..MaxThreads
    /\ total' = 0
    /\ fpc' = "fork"
    /\ UNCHANGED <<cvars, exc, fwk, fnext, fraction, ovars>>

\* mutant: the prange starts at row 1
FracFork_from_one ==
    /\ fpc = "fork"
    /\ fwk' = [t \in Threads |->
                 IF t < nthreads THEN [pc |-> "run", part |-> 0] ELSE fwk[t]]
    /\ fnext' = 1
    /\ fpc' = "join"
    /\ UNCHANGED <<cvars, nthreads, counts, exc, maxval, total, fraction, ovars>>

\* line 433: entry of the prange region; every thread gets a private total,
\* initialised to 0 (the + reduction)
FracFork ==
    /\ fpc = "fork"
    /\ fwk' = [t \in Threads |->
                 IF t < nthreads THEN [pc |-> "run", part |-> 0] ELSE fwk[t]]
    /\ fnext' = 0
    /\ fpc' = "join"
    /\ UNCHANGED <<cvars, nthreads, counts, exc, maxval, total, fraction, ovars>>

\* lines 433-436: thread t runs one iteration of the prange (no schedule is
\* given, so any thread may get any iteration) on its private total
FracRow(t) ==
    /\ fpc = "join"
    /\ fwk[t].pc = "run"
    /\ fnext < ShapeN(counts)
    /\ fwk' = [fwk EXCEPT ![t].part =
                  row_total(counts, fnext, 0, ShapeM(counts), maxval, fwk[t].part)]
    /\ fnext' = fnext + 1
    /\ UNCHANGED <<cvars, nthreads, counts, exc, maxval, total, fpc, fraction, ovars>>

\* mutant: the private totals are combined by an unsynchronised store
FracReduce_lost(t) ==
    /\ fpc = "join"
    /\ fwk[t].pc = "run"
    /\ fnext >= ShapeN(counts)
    /\ total' = fwk[t].part
    /\ fwk' = [fwk EXCEPT ![t].pc = "done"]
    /\ UNCHANGED <<cvars, nthreads, counts, exc, maxval, fpc, fnext, fraction, ovars>>

\* end of the prange for thread t: its private total is added to total
\* (the reduction's atomic combine)
FracReduce(t) ==
    /\ fpc = "join"
    /\ fwk[t].pc = "run"
    /\ fnext >= ShapeN(counts)
    /\ total' = total + fwk[t].part
    /\ fwk' = [fwk EXCEPT ![t].pc = "done"]
    /\ UNCHANGED <<cvars, nthreads, counts, exc, maxval, fpc, fnext, fraction, ovars>>

\* the barrier that ends the region, then line 437:
\* return total / float(counts.size)
FracReturn ==
    /\ fpc = "join"
    /\ \A t \in Threads : t < nthreads => fwk[t].pc = "done"
    /\ IF ShapeN(counts) * ShapeM(counts) = 0
       THEN /\ exc' = "ZeroDivisionError"
            /\ fpc' = "raised"
            /\ fraction' = fraction
       ELSE /\ fraction' = Rat[total, ShapeN(counts) * ShapeM(counts)]
            /\ fpc' = "returned"
            /\ exc' = exc
    /\ UNCHANGED <<cvars, nthreads, counts, maxval, total, fwk, fnext, ovars>>

NextFrac ==
    \/ FracCall
    \/ FracFork
    \/ \E t \in Threads : FracRow(t) \/ FracReduce(t)
    \/ FracReturn

SpecFrac == Init /\ [][NextFrac]_vars

\* the serial julia_fraction, lines 551-553: the inner loop over row i
RECURSIVE serial_row(_, _, _, _, _, _)
serial_row(f, i, j, M, mv, acc) ==
    IF j < M
    THEN serial_row(f, i, j + 1, M, mv, IF f[i][j] = mv THEN acc + 1 ELSE acc)
    ELSE acc

\* the serial julia_fraction, lines 550-553: the outer loop from row i
RECURSIVE serial_total(_, _, _, _, _, _)
serial_total(f, i, N, M, mv, acc) ==
    IF i < N
    THEN serial_total(f, i + 1, N, M, mv, serial_row(f, i, 0, M, mv, acc))
    ELSE acc

\* the serial julia_fraction, for a field that is not empty
julia_fraction_serial(f, mv) ==
    Rat[serial_total(f, 0, ShapeN(f), ShapeM(f), mv, 0), ShapeN(f) * ShapeM(f)]

\* --------------------------------------------------- the calling cell
\* julia.py, line 471: julia_fraction(jl) on the field calc_julia returned.
\* The cell leaves n_max and maxval at their defaults, which are the same
\* number (1000), so maxval is the n_max of the call; the team is the same.
JuliaPyFraction ==
    /\ pc = "returned"
    /\ fpc = "call"
    /\ maxval' = n_max
    /\ total' = 0
    /\ fpc' = "fork"
    /\ UNCHANGED <<cvars, nthreads, counts, exc, fwk, fnext, fraction, ovars>>

\* julia.py, lines 468-471: calc_julia, then julia_fraction on its result
NextJuliaPy ==
    \/ Next
    \/ JuliaPyFraction
    \/ FracFork
    \/ \E t \in Threads : FracRow(t) \/ FracReduce(t)
    \/ FracReturn

SpecJuliaPy == Init /\ [][NextJuliaPy]_vars

\* ------------------------------------------- calc_julia called repeatedly
\* calc_julia, lines 403-423, as the value it leaves in the buffer it
\* allocated (for resolution >= 1)
calc_julia_value(a) ==
    [i \in 0..a.resolution |-> [j \in 0..a.resolution |->
        cell_value(a.resolution, a.c, a.bound, a.z_max, a.n_max, i, j)]]

\* mutant: the field lives in one static buffer
NewAddress_static(h) == 1

\* np.zeros (line 413) takes a buffer that no live array uses
NewAddress(h) == Len(h) + 1

\* the heap with buffer addr holding f
Stored(h, addr, f) ==
    IF addr \in DOMAIN h THEN [h EXCEPT ![addr] = f] ELSE Append(h, f)

\* the caller binds the arguments of its next call (names bound to Python
\* int, float and complex objects)
CallerBind ==
    /\ cpc = "bind"
    /\ Len(jl) < MaxCalls
    /\ cargs' \in CallArgs
    /\ cpc' = "call"
    /\ UNCHANGED <<heap, jl, kvars, nthreads, sumvars, tidvars, fibvars, bufvars>>

\* jl = calc_julia(...): the arguments are converted to C values, the field
\* is allocated, filled and returned as an array on the new buffer (line
\* 423); resolution = 0 raises at line 407 and nothing is returned
CallerCall ==
    /\ cpc = "call"
    /\ IF cargs.resolution = 0
       THEN UNCHANGED <<heap, jl>>
       ELSE LET addr == NewAddress(heap)
            IN  /\ heap' = Stored(heap, addr, calc_julia_value(cargs))
                /\ jl' = Append(jl, [args |-> cargs, ref |-> addr, written |-> FALSE])
    /\ cpc' = "bind"
    /\ UNCHANGED <<cargs, kvars, nthreads, sumvars, tidvars, fibvars, bufvars>>

\* the caller changes an array it got: jl[0, 0] = -1
CallerStore(k) ==
    /\ cpc = "bind"
    /\ k \in 1..Len(jl)
    /\ ~jl[k].written
    /\ heap' = [heap EXCEPT ![jl[k].ref][0][0] = 0 - 1]
    /\ jl' = [jl EXCEPT ![k].written = TRUE]
    /\ UNCHANGED <<cargs, cpc, kvars, nthreads, sumvars, tidvars, fibvars, bufvars>>

NextCalls ==
    \/ CallerBind
    \/ CallerCall
    \/ \E k \in 1..MaxCalls : CallerStore(k)

SpecCalls == Init /\ [][NextCalls]_vars

\* ------------------------------------------------- the prange sum cell
\* the values of n the cell is run with: the notebook's 30, and small ones
LoopNs == (0..MaxN) \cup {30}

\* the default schedule is the runtime's: "static" gives every thread one
\* block of consecutive iterations, "any" stands for a runtime that hands any
\* remaining iteration to any thread (enumerated for the small n only)
Schedules(nn) == IF nn <= MaxN THEN {"static", "any"} ELSE {"static"}

\* static schedule without chunk size: blocks of ceil(n / T) iterations
StaticOwner(i, nn, T) == i \div ((nn + T - 1) \div T)

\* thread t may run iteration i next
MayRun(t, i) ==
    /\ i \in sum_todo
    /\ sum_sched = "static" =>
          /\ StaticOwner(i, loop_n, nthreads) = t
          /\ \A k \in sum_todo : StaticOwner(k, loop_n, nthreads) = t => i <= k

\* cdef int n = 30; cdef int sum = 0, with a team of nthreads threads
SumStart ==
    /\ sum_pc = "start"
    /\ loop_n' \in LoopNs
    /\ sum_sched' \in Schedules(loop_n')
    /\ nthreads' \in 1..MaxThreads
    /\ sum' = 0
    /\ sum_pc' = "fork"
    /\ UNCHANGED <<sum_priv, sum_todo, printed, kvars, callvars, tidvars, fibvars, bufvars>>

\* for i in prange(n, nogil=True): every thread gets a private sum set to 0
SumFork ==
    /\ sum_pc = "fork"
    /\ sum_priv' = [t \in Threads |->
                      IF t < nthreads THEN [pc |-> "run", part |-> 0] ELSE sum_priv[t]]
    /\ sum_todo' = 0..(loop_n - 1)
    /\ sum_pc' = "join"
    /\ UNCHANGED <<loop_n, sum, sum_sched, printed, nthreads, kvars, callvars, tidvars, fibvars, bufvars>>

\* sum += i, on the thread's private sum
SumIter(t, i) ==
    /\ sum_pc = "join"
    /\ sum_priv[t].pc = "run"
    /\ MayRun(t, i)
    /\ sum_priv' = [sum_priv EXCEPT ![t].part = @ + i]
    /\ sum_todo' = sum_todo \ {i}
    /\ UNCHANGED <<sum_pc, loop_n, sum, sum_sched, printed, nthreads, kvars, callvars, tidvars, fibvars, bufvars>>

\* mutant: the private sums are combined by an unsynchronised store
SumReduce_overwrite(t) ==
    /\ sum_pc = "join"
    /\ sum_priv[t].pc = "run"
    /\ \A i \in sum_todo : ~MayRun(t, i)
    /\ sum' = sum_priv[t].part
    /\ sum_priv' = [sum_priv EXCEPT ![t].pc = "done"]
    /\ UNCHANGED <<sum_pc, loop_n, sum_todo, sum_sched, printed, nthreads, kvars, callvars, tidvars, fibvars, bufvars>>

\* thread t has no iteration left: its private sum is added to sum (the
\* combine of the + reduction)
SumReduce(t) ==
    /\ sum_pc = "join"
    /\ sum_priv[t].pc = "run"
    /\ \A i \in sum_todo : ~MayRun(t, i)
    /\ sum' = sum + sum_priv[t].part
    /\ sum_priv' = [sum_priv EXCEPT ![t].pc = "done"]
    /\ UNCHANGED <<sum_pc, loop_n, sum_todo, sum_sched, printed, nthreads, kvars, callvars, tidvars, fibvars, bufvars>>

\* the barrier that ends the prange
SumJoin ==
    /\ sum_pc = "join"
    /\ \A t \in Threads : t < nthreads => sum_priv[t].pc = "done"
    /\ sum_pc' = "print"
    /\ UNCHANGED <<loop_n, sum, sum_priv, sum_todo, sum_sched, printed, nthreads, kvars, callvars, tidvars, fibvars, bufvars>>

\* print(sum)
SumPrint ==
    /\ sum_pc = "print"
    /\ printed' = sum
    /\ sum_pc' = "done"
    /\ UNCHANGED <<loop_n, sum, sum_priv, sum_todo, sum_sched, nthreads, kvars, callvars, tidvars, fibvars, bufvars>>

NextSum ==
    \/ SumStart
    \/ SumFork
    \/ \E t \in Threads : \E i \in 0..(loop_n - 1) : SumIter(t, i)
    \/ \E t \in Threads : SumReduce(t)
    \/ SumJoin
    \/ SumPrint

SpecSum == Init /\ [][NextSum]_vars

\* --------------------------------------------------- the thread-id cell
\* mutant: the two variables are shared by the team
Slot_shared(t) == 0

\* num_threads and thread_id are assigned inside the parallel block, so
\* every thread has its own copy of each
Slot(t) == t

\* openmp.omp_get_num_threads() and openmp.omp_get_thread_num() in thread t
omp_get_num_threads(t) == nthreads

omp_get_thread_num(t) == t

\* with nogil, parallel(): the team starts
TidFork ==
    /\ \A t \in TeamIds : tid_pc[t] = "idle"
    /\ nthreads' \in 1..MaxTeam
    /\ tid_pc' = [t \in TeamIds |-> IF t < nthreads' THEN "get_num" ELSE "idle"]
    /\ UNCHANGED <<num_threads, thread_id, out, kvars, callvars, sumvars, fibvars, bufvars>>

\* num_threads = openmp.omp_get_num_threads()
TidGetNum(t) ==
    /\ tid_pc[t] = "get_num"
    /\ num_threads' = [num_threads EXCEPT ![Slot(t)] = omp_get_num_threads(t)]
    /\ tid_pc' = [tid_pc EXCEPT ![t] = "print_num"]
    /\ UNCHANGED <<thread_id, out, nthreads, kvars, callvars, sumvars, fibvars, bufvars>>

\* printf("Number of threads: %d\n", num_threads); a call of printf writes
\* its line whole
TidPrintNum(t) ==
    /\ tid_pc[t] = "print_num"
    /\ out' = Append(out, [line |-> "Number of threads", val |-> num_threads[Slot(t)], by |-> t])
    /\ tid_pc' = [tid_pc EXCEPT ![t] = "get_id"]
    /\ UNCHANGED <<num_threads, thread_id, nthreads, kvars, callvars, sumvars, fibvars, bufvars>>

\* thread_id = openmp.omp_get_thread_num()
TidGetId(t) ==
    /\ tid_pc[t] = "get_id"
    /\ thread_id' = [thread_id EXCEPT ![Slot(t)] = omp_get_thread_num(t)]
    /\ tid_pc' = [tid_pc EXCEPT ![t] = "print_id"]
    /\ UNCHANGED <<num_threads, out, nthreads, kvars, callvars, sumvars, fibvars, bufvars>>

\* printf("Thread ID: %d\n", thread_id)
TidPrintId(t) ==
    /\ tid_pc[t] = "print_id"
    /\ out' = Append(out, [line |-> "Thread ID", val |-> thread_id[Slot(t)], by |-> t])
    /\ tid_pc' = [tid_pc EXCEPT ![t] = "done"]
    /\ UNCHANGED <<num_threads, thread_id, nthreads, kvars, callvars, sumvars, fibvars, bufvars>>

NextTid ==
    \/ TidFork
    \/ \E t \in TeamIds : TidGetNum(t)
    \/ \E t \in TeamIds : TidPrintNum(t)
    \/ \E t \in TeamIds : TidGetId(t)
    \/ \E t \in TeamIds : TidPrintId(t)

SpecTid == Init /\ [][NextTid]_vars

\* ---------------------------------------------------------- the fib cells
\* The doubles of fib are whole numbers beyond 2^31, so they are kept in two
\* limbs: the double [hi, lo] has the value hi * 2^30 + lo, 0 <= lo < 2^30.
Limb == 2^30

Whole(v) == [hi |-> 0, lo |-> v]

\* the sum of two whole doubles before it is rounded
ExactAdd(x, y) ==
    LET l == x.lo + y.lo
    IN  [hi |-> x.hi + y.hi + (l \div Limb), lo |-> l % Limb]

\* the number of binary digits of h
RECURSIVE BitLen(_)
BitLen(h) == IF h = 0 THEN 0 ELSE 1 + BitLen(h \div 2)

\* round to nearest, ties to even, to the 53 binary digits of a double: a
\* value of 53 + e digits is rounded to a multiple of 2^e
RoundDouble(x) ==
    IF x.hi < 2^23 THEN x
    ELSE LET q == 2^(BitLen(x.hi) - 23)
             r == x.lo % q
             base == x.lo - r
             down == [hi |-> x.hi, lo |-> base]
             up == [hi |-> x.hi + ((base + q) \div Limb), lo |-> (base + q) % Limb]
         IN  IF 2 * r < q THEN down
             ELSE IF 2 * r > q THEN up
             ELSE IF (base \div q) % 2 = 0 THEN down ELSE up

\* a + b in double arithmetic
DoubleAdd(x, y) == RoundDouble(ExactAdd(x, y))

FibNs == (0 - 2)..MaxFib

\* the cells are run one after the other with the same n: fib(n) of the
\* Python version is entered (a = 0.0, b = 1.0)
FibCall ==
    /\ fib_pc = "call"
    /\ fib_n' \in FibNs
    /\ fib_a' = Whole(0)
    /\ fib_b' = Whole(1)
    /\ fib_i' = 0
    /\ fib_ret' = [py |-> None, c |-> None, cy |-> None]
    /\ fib_pc' = "py"
    /\ UNCHANGED <<kvars, nthreads, callvars, sumvars, tidvars, bufvars>>

\* Python, lines 33-34: for i in range(n): a, b = a + b, a
FibStepPy ==
    /\ fib_pc = "py"
    /\ fib_i < fib_n
    /\ fib_a' = DoubleAdd(fib_a, fib_b)
    /\ fib_b' = fib_a
    /\ fib_i' = fib_i + 1
    /\ UNCHANGED <<fib_pc, fib_n, fib_ret, kvars, nthreads, callvars, sumvars, tidvars, bufvars>>

\* Python, line 35: return a; then the C version is entered
FibReturnPy ==
    /\ fib_pc = "py"
    /\ ~(fib_i < fib_n)
    /\ fib_ret' = [fib_ret EXCEPT !.py = fib_a]
    /\ fib_a' = Whole(0)
    /\ fib_b' = Whole(1)
    /\ fib_i' = 0
    /\ fib_pc' = "c"
    /\ UNCHANGED <<fib_n, kvars, nthreads, callvars, sumvars, tidvars, bufvars>>

\* mutant: the C loop without its temporary (a = a + b; b = a)
FibStepC_no_tmp ==
    /\ fib_pc = "c"
    /\ fib_i < fib_n
    /\ fib_a' = DoubleAdd(fib_a, fib_b)
    /\ fib_b' = fib_a'
    /\ fib_i' = fib_i + 1
    /\ UNCHANGED <<fib_pc, fib_n, fib_ret, kvars, nthreads, callvars, sumvars, tidvars, bufvars>>

\* C, lines 57-62: for (i=0; i<n; ++i) { tmp = a; a = a + b; b = tmp; }
FibStepC ==
    /\ fib_pc = "c"
    /\ fib_i < fib_n
    /\ LET tmp == fib_a
       IN  /\ fib_a' = DoubleAdd(fib_a, fib_b)
           /\ fib_b' = tmp
    /\ fib_i' = fib_i + 1
    /\ UNCHANGED <<fib_pc, fib_n, fib_ret, kvars, nthreads, callvars, sumvars, tidvars, bufvars>>

\* C, line 63: return a; then the Cython version is entered
FibReturnC ==
    /\ fib_pc = "c"
    /\ ~(fib_i < fib_n)
    /\ fib_ret' = [fib_ret EXCEPT !.c = fib_a]
    /\ fib_a' = Whole(0)
    /\ fib_b' = Whole(1)
    /\ fib_i' = 0
    /\ fib_pc' = "cy"
    /\ UNCHANGED <<fib_n, kvars, nthreads, callvars, sumvars, tidvars, bufvars>>

\* Cython, lines 124-125: for i in range(n): a, b = a + b, a on cdef doubles
FibStepCy ==
    /\ fib_pc = "cy"
    /\ fib_i < fib_n
    /\ fib_a' = DoubleAdd(fib_a, fib_b)
    /\ fib_b' = fib_a
    /\ fib_i' = fib_i + 1
    /\ UNCHANGED <<fib_pc, fib_n, fib_ret, kvars, nthreads, callvars, sumvars, tidvars, bufvars>>

\* Cython, line 126: return a
FibReturnCy ==
    /\ fib_pc = "cy"
    /\ ~(fib_i < fib_n)
    /\ fib_ret' = [fib_ret EXCEPT !.cy = fib_a]
    /\ fib_pc' = "done"
    /\ UNCHANGED <<fib_n, fib_i, fib_a, fib_b, kvars, nthreads, callvars, sumvars, tidvars, bufvars>>

NextFib ==
    \/ FibCall
    \/ FibStepPy
    \/ FibReturnPy
    \/ FibStepC
    \/ FibReturnC
    \/ FibStepCy
    \/ FibReturnCy

SpecFib == Init /\ [][NextFib]_vars

\* ------------------------------------------------ the local_buf example
\* mutant: local_buf is one variable shared by the team
BufSlot_shared(t) == 0

\* local_buf is assigned inside the parallel block, so every thread has its
\* own copy of the pointer
BufSlot(t) == t

\* the content of a block that malloc has just returned
Junk == 0 - 1

\* a block as malloc returns it to thread t; by and frees are history: the
\* threads that touched the block and the number of times it was freed
NewBlock(t) ==
    [state |-> "live", owner |-> t, data |-> [i \in 0..(BufSize - 1) |-> Junk],
     by |-> {}, frees |-> 0]

\* with nogil, parallel(): the team starts; n iterations wait in the prange
BufFork ==
    /\ \A t \in TeamIds : buf_pc[t] = "idle"
    /\ nthreads' \in 1..MaxTeam
    /\ buf_pc' = [t \in TeamIds |-> IF t < nthreads' THEN "malloc" ELSE "idle"]
    /\ buf_todo' = 0..(MaxN - 1)
    /\ UNCHANGED <<local_buf, mem, buf_i, aborted, kvars, callvars, sumvars, tidvars, fibvars>>

\* local_buf = <int *> malloc(sizeof(int) * size): a new block, or NULL
BufMalloc(t) ==
    /\ ~aborted
    /\ buf_pc[t] = "malloc"
    /\ \/ /\ local_buf' = [local_buf EXCEPT ![BufSlot(t)] = Len(mem) + 1]
          /\ mem' = Append(mem, NewBlock(t))
       \/ /\ local_buf' = [local_buf EXCEPT ![BufSlot(t)] = NULL]
          /\ mem' = mem
    /\ buf_pc' = [buf_pc EXCEPT ![t] = "check"]
    /\ UNCHANGED <<buf_i, buf_todo, aborted, nthreads, kvars, callvars, sumvars, tidvars, fibvars>>

\* if local_buf is NULL: abort(); otherwise the header of the xrange loop
BufCheck(t) ==
    /\ ~aborted
    /\ buf_pc[t] = "check"
    /\ IF local_buf[BufSlot(t)] = NULL
       THEN /\ aborted' = TRUE
            /\ buf_pc' = [buf_pc EXCEPT ![t] = "aborted"]
            /\ buf_i' = buf_i
       ELSE /\ buf_pc' = [buf_pc EXCEPT ![t] = "fill"]
            /\ buf_i' = [buf_i EXCEPT ![t] = 0]
            /\ aborted' = aborted
    /\ UNCHANGED <<local_buf, mem, buf_todo, nthreads, kvars, callvars, sumvars, tidvars, fibvars>>

\* for i in xrange(size): local_buf[i] = i * 2, one pass; or the end of the
\* loop
BufFill(t) ==
    /\ ~aborted
    /\ buf_pc[t] = "fill"
    /\ IF buf_i[t] < BufSize
       THEN /\ mem' = [mem EXCEPT ![local_buf[BufSlot(t)]].data[buf_i[t]] = buf_i[t] * 2,
                                  ![local_buf[BufSlot(t)]].by = @ \cup {t}]
            /\ buf_i' = [buf_i EXCEPT ![t] = @ + 1]
            /\ buf_pc' = buf_pc
       ELSE /\ buf_pc' = [buf_pc EXCEPT ![t] = "loop"]
            /\ UNCHANGED <<mem, buf_i>>
    /\ UNCHANGED <<local_buf, buf_todo, aborted, nthreads, kvars, callvars, sumvars, tidvars, fibvars>>

\* for i in prange(n, schedule='guided'): func(local_buf), one iteration:
\* the thread takes the next iteration not yet handed out
BufIter(t) ==
    /\ ~aborted
    /\ buf_pc[t] = "loop"
    /\ buf_todo # {}
    /\ LET i == CHOOSE k \in buf_todo : \A m \in buf_todo : k <= m
       IN  /\ buf_todo' = buf_todo \ {i}
           /\ buf_i' = [buf_i EXCEPT ![t] = i]
    /\ mem' = [mem EXCEPT ![local_buf[BufSlot(t)]].by = @ \cup {t}]
    /\ UNCHANGED <<buf_pc, local_buf, aborted, nthreads, kvars, callvars, sumvars, tidvars, fibvars>>

\* no iteration is left: the thread waits at the barrier that ends the prange
BufLoopEnd(t) ==
    /\ ~aborted
    /\ buf_pc[t] = "loop"
    /\ buf_todo = {}
    /\ buf_pc' = [buf_pc EXCEPT ![t] = "barrier"]
    /\ UNCHANGED <<local_buf, mem, buf_i, buf_todo, aborted, nthreads, kvars, callvars, sumvars, tidvars, fibvars>>

\* the barrier opens when the whole team has reached it
BufBarrier(t) ==
    /\ ~aborted
    /\ buf_pc[t] = "barrier"
    /\ \A u \in TeamIds : u < nthreads => buf_pc[u] \in {"barrier", "free", "done"}
    /\ buf_pc' = [buf_pc EXCEPT ![t] = "free"]
    /\ UNCHANGED <<local_buf, mem, buf_i, buf_todo, aborted, nthreads, kvars, callvars, sumvars, tidvars, fibvars>>

\* free(local_buf)
BufFree(t) ==
    /\ ~aborted
    /\ buf_pc[t] = "free"
    /\ mem' = [mem EXCEPT ![local_buf[BufSlot(t)]].state = "freed",
                          ![local_buf[BufSlot(t)]].frees = @ + 1,
                          ![local_buf[BufSlot(t)]].by = @ \cup {t}]
    /\ buf_pc' = [buf_pc EXCEPT ![t] = "done"]
    /\ UNCHANGED <<local_buf, buf_i, buf_todo, aborted, nthreads, kvars, callvars, sumvars, tidvars, fibvars>>

NextBuf ==
    \/ BufFork
    \/ \E t \in TeamIds : BufMalloc(t)
    \/ \E t \in TeamIds : BufCheck(t)
    \/ \E t \in TeamIds : BufFill(t)
    \/ \E t \in TeamIds : BufIter(t)
    \/ \E t \in TeamIds : BufLoopEnd(t)
    \/ \E t \in TeamIds : BufBarrier(t)
    \/ \E t \in TeamIds : BufFree(t)

SpecBuf == Init /\ [][NextBuf]_vars

\* line 413 has run: counts refers to the allocated field
Allocated == pc \in {"fork", "join", "returned"}

\* line 407 has run without raising: step holds its value
StepComputed == Allocated \/ pc = "alloc" \/ (pc = "raised" /\ exc = "ValueError")

\* scheduling: as long as some thread can take a step, some thread does (the
\* weakest progress the operating system gives; no thread needs to be
\* favoured over another)
SpecFair == Spec /\ WF_vars(Next)

\* ------------------------------------------------- the serial version
\* cdef inline double norm2 of the serial cell
norm2_serial(z) == RAdd[RMul[z.re, z.re], RMul[z.im, z.im]]

\* escape of the serial cell: the while loop from (z, i)
RECURSIVE escape_loop_serial(_, _, _, _, _)
escape_loop_serial(z, i, cc, zm2, nm) ==
    IF RLess[norm2_serial(z), zm2] /\ i < nm
    THEN escape_loop_serial(CAdd[CMul[z, z], cc], i + 1, cc, zm2, nm)
    ELSE i

escape_serial(z, cc, zm, nm) == escape_loop_serial(z, 0, cc, RMul[zm, zm], nm)

\* the inner loop of the serial calc_julia: for j in range(resolution + 1)
RECURSIVE serial_cols(_, _, _, _, _, _, _, _, _, _)
serial_cols(cnt, i, j, re, res, b, st, cc, zm, nm) ==
    IF j < res + 1
    THEN LET im == RAdd[RNeg[b], RMul[FromInt[j], st]]
             z == Cplx[re, im]
         IN  serial_cols([cnt EXCEPT ![i][j] = escape_serial(z, cc, zm, nm)],
                         i, j + 1, re, res, b, st, cc, zm, nm)
    ELSE cnt

\* the outer loop of the serial calc_julia: for i in range(resolution + 1)
RECURSIVE serial_rows(_, _, _, _, _, _, _, _)
serial_rows(cnt, i, res, b, st, cc, zm, nm) ==
    IF i < res + 1
    THEN LET re == RAdd[RNeg[b], RMul[FromInt[i], st]]
         IN  serial_rows(serial_cols(cnt, i, 0, re, res, b, st, cc, zm, nm),
                         i + 1, res, b, st, cc, zm, nm)
    ELSE cnt

\* the serial calc_julia, for the arguments on which it returns
calc_julia_serial(res, cc, b, zm, nm) ==
    serial_rows([i \in 0..res |-> [j \in 0..res |-> 0]], 0, res, b,
                RDivInt[RMul[FromInt[2], b], res], cc, zm, nm)

\* ------------------------------------------------------------ the claims
Positive(a) == RLess[Zero, a]

\* the input contract of evaluate_field
ValidArgs == resolution >= 1 /\ Positive(z_max) /\ n_max >= 1 /\ Positive(bound)

Rows == 0..resolution

Team == {t \in Threads : t < nthreads}

\* the point sampled for cell (i, j)
SamplePoint(i, j) ==
    Cplx[RAdd[RNeg[bound], RMul[FromInt[i], StepOf(bound, resolution)]],
         RAdd[RNeg[bound], RMul[FromInt[j], StepOf(bound, resolution)]]]

\* C1: for valid arguments the returned field has resolution+1 rows and
\* resolution+1 columns and every entry is an integer in 0..n_max
\* (a 2x2 field for resolution = 1).
C1_ShapeAndRange ==
    (pc = "returned" /\ ValidArgs) =>
        /\ DOMAIN counts = 0..resolution
        /\ Cardinality(DOMAIN counts) = resolution + 1
        /\ \A i \in DOMAIN counts :
              /\ DOMAIN counts[i] = 0..resolution
              /\ \A j \in DOMAIN counts[i] : counts[i][j] \in 0..n_max

C1_Witness ==
    /\ pc = "returned"
    /\ ValidArgs
    /\ resolution = 1
    /\ Cardinality(DOMAIN counts) = 2
    /\ \E i \in Rows : \E j \in Rows : counts[i][j] = n_max

\* C2: the field the prange version returns equals the field of the serial
\* version on the same arguments, for every team size and interleaving.
C2_ParallelEqualsSerial ==
    pc = "returned" => counts = calc_julia_serial(resolution, c, bound, z_max, n_max)

C2_Witness ==
    /\ pc = "returned"
    /\ nthreads >= 2
    /\ resolution >= 1
    /\ \E i \in Rows : \E j \in Rows : counts[i][j] >= 1
    /\ \E i \in Rows : \E j \in Rows : counts[i][j] = 0

\* C3: for valid arguments the call terminates: under fair scheduling of the
\* threads a call entered with valid arguments eventually returns, and
\* escape's counter never passes n_max (at most n_max applications per point).
C3_Terminates ==
    /\ (pc = "step" /\ ValidArgs) ~> (pc = "returned")
    /\ [](ValidArgs => \A t \in Threads : wk[t].n <= n_max)

C3_Witness ==
    /\ pc = "returned"
    /\ ValidArgs
    /\ nthreads >= 2
    /\ n_max = MaxIter
    /\ \E i \in Rows : \E j \in Rows : counts[i][j] = n_max

\* C4: when the call returns every cell has been stored exactly once and
\* every thread of the team has finished its rows; no cell is ever stored
\* twice.
C4_ExactlyOnce ==
    /\ Allocated => \A i \in Rows : \A j \in Rows : nwrites[i][j] <= 1
    /\ pc = "returned" =>
          /\ \A i \in Rows : \A j \in Rows : nwrites[i][j] = 1
          /\ \A t \in Team : wk[t].pc = "done"

C4_Witness ==
    /\ pc = "returned"
    /\ resolution = MaxRes
    /\ nthreads >= 2
    /\ \A i \in Rows : \A j \in Rows : nwrites[i][j] = 1

\* the threads that are inside an iteration of the prange loop
InRow(t) == t \in Team /\ wk[t].pc = "loop"

\* C5: every row belongs to one thread (row i to thread i mod T, fixed for
\* the whole call), a thread only works on rows it owns, and no two threads
\* are ever on the same row, so no two threads store to the same cell.
C5_OwnedRowsNoRace ==
    /\ \A t \in Threads : InRow(t) =>
          /\ wk[t].i \in Rows
          /\ Owner(wk[t].i, nthreads) = t
    /\ \A t1 \in Threads : \A t2 \in Threads :
          (t1 # t2 /\ InRow(t1) /\ InRow(t2)) => wk[t1].i # wk[t2].i

C5_Witness ==
    \E t1 \in Threads : \E t2 \in Threads :
        /\ t1 # t2
        /\ wk[t1].pc = "loop"
        /\ wk[t2].pc = "loop"
        /\ wk[t1].i >= nthreads

Called == pc # "call"

\* the arguments the spec calls invalid
InvalidArgs == resolution < 1 \/ ~Positive(z_max) \/ n_max < 1

AllZero == \A i \in Rows : \A j \in Rows : counts[i][j] = 0

Complete == \A i \in Rows : \A j \in Rows : nwrites[i][j] = 1

\* C6 as stated: on an invalid argument no field is computed or returned.
C6_Original == (Called /\ InvalidArgs) => (~Allocated /\ pc # "returned")

\* C6 as amended: the code validates nothing and never raises
\* InvalidArgument.  resolution = 0 raises ZeroDivisionError and
\* resolution < -1 raises ValueError, and then no field is allocated or
\* returned; resolution = -1 returns an empty field; with resolution >= 1 and
\* escape_radius <= 0 or max_iterations < 1 nothing is raised and a complete
\* field is returned, all zeros when escape_radius = 0 or max_iterations < 1.
C6_NoValidation ==
    Called =>
        /\ exc \in {None, "ZeroDivisionError", "ValueError"}
        /\ (pc = "raised") = (exc # None)
        /\ exc = "ZeroDivisionError" => resolution = 0
        /\ exc = "ValueError" => resolution < 0 - 1
        /\ (resolution = 0 \/ resolution < 0 - 1) => (~Allocated /\ pc # "returned")
        /\ resolution >= 0 - 1 /\ resolution # 0 => pc # "raised"
        /\ (pc = "returned" /\ resolution = 0 - 1) => counts = NoField
        /\ (pc = "returned" /\ resolution >= 1) =>
              /\ Complete
              /\ DOMAIN counts = Rows
              /\ (z_max = Zero \/ n_max < 1) => AllZero

C6_Witness ==
    /\ pc = "returned"
    /\ resolution >= 1
    /\ InvalidArgs
    /\ Complete
    /\ AllZero

Inside(z) == RLess[norm2(z), RMul[z_max, z_max]]

OnBoundary(z) == norm2(z) = RMul[z_max, z_max]

\* what one step of thread t from escape's loop does: another pass
Continues(t) ==
    /\ wk'[t].pc = "loop"
    /\ wk'[t].n = wk[t].n + 1
    /\ wk'[t].j = wk[t].j
    /\ UNCHANGED counts

\* ... or the return of escape and the store of its result
Stops(t) ==
    /\ counts'[wk[t].i][wk[t].j] = wk[t].n
    /\ nwrites'[wk[t].i][wk[t].j] = nwrites[wk[t].i][wk[t].j] + 1
    /\ wk'[t].pc = "row" \/ (wk'[t].n = 0 /\ wk'[t].j = wk[t].j + 1)

\* C8 as stated: the loop stops only when |z|^2 > z_max^2 or the count
\* reaches n_max, so a point with |z|^2 = z_max^2 and count < n_max gets
\* another application of the recurrence.
C8_Original ==
    [][\A t \in Threads :
          (pc = "join" /\ wk[t].pc = "loop" /\ wk'[t] # wk[t]) =>
              IF ~RLess[RMul[z_max, z_max], norm2(wk[t].z)] /\ wk[t].n < n_max
              THEN Continues(t)
              ELSE Stops(t)]_vars

\* C8 as amended: the loop stops as soon as |z|^2 >= z_max^2 or the count
\* reaches n_max; a point with |z|^2 exactly z_max^2 IS escaped: the
\* recurrence is not applied to it again.
C8_StopsAtBoundary ==
    [][\A t \in Threads :
          (pc = "join" /\ wk[t].pc = "loop" /\ wk'[t] # wk[t]) =>
              IF Inside(wk[t].z) /\ wk[t].n < n_max
              THEN Continues(t)
              ELSE Stops(t)]_vars

\* a point exactly on the boundary was stored with the count it had on entry
C8_Witness ==
    /\ Allocated
    /\ n_max >= 1
    /\ \E i \in Rows : \E j \in Rows :
          /\ nwrites[i][j] = 1
          /\ OnBoundary(SamplePoint(i, j))
          /\ counts[i][j] = 0

\* z_k of the claim: z_0 the sample point, z_{k+1} = z_k^2 + c
RECURSIVE Orbit(_, _)
Orbit(z0, k) ==
    IF k = 0 THEN z0
    ELSE LET p == Orbit(z0, k - 1) IN CAdd[CMul[p, p], c]

\* the least k in 0..n_max with k = n_max or z_k failing the continue test
LeastK(z0) ==
    CHOOSE k \in 0..n_max :
        /\ \A m \in 0..(k - 1) : Inside(Orbit(z0, m))
        /\ (k = n_max \/ ~Inside(Orbit(z0, k)))

\* C9: the count stored in cell (i, j) is the number of applications of the
\* recurrence performed for its sample point (while escape runs, its z is
\* z_n for its counter n), which is the least k in 0..n_max such that
\* k = n_max or z_k fails the continue test.
C9_CountIsLeastK ==
    (Allocated /\ n_max >= 0) =>
        /\ pc = "returned" =>
              \A i \in Rows : \A j \in Rows : counts[i][j] = LeastK(SamplePoint(i, j))
        /\ \A t \in Team :
              wk[t].pc = "loop" =>
                  wk[t].z = Orbit(SamplePoint(wk[t].i, wk[t].j), wk[t].n)

C9_Witness ==
    /\ pc = "returned"
    /\ ValidArgs
    /\ \E i \in Rows : \E j \in Rows :
          /\ counts[i][j] >= 1
          /\ counts[i][j] < n_max
          /\ counts[i][j] = LeastK(SamplePoint(i, j))

\* C10: for a non-empty field julia_fraction returns the number of cells
\* equal to maxval divided by the number of cells, a value in [0, 1] (8/9
\* for the 3x3 field of eight 50s around a 3 with maxval = 50); the serial
\* version returns the same value.
C10_Fraction ==
    fpc = "returned" =>
        LET N == ShapeN(counts)
            M == ShapeM(counts)
            hits == {q \in (0..(N - 1)) \X (0..(M - 1)) : counts[q[1]][q[2]] = maxval}
        IN  /\ N * M > 0
            /\ fraction = Rat[Cardinality(hits), N * M]
            /\ ~RLess[fraction, FromInt[0]]
            /\ ~RLess[FromInt[1], fraction]
            /\ fraction = julia_fraction_serial(counts, maxval)

C10_Witness ==
    /\ fpc = "returned"
    /\ nthreads >= 2
    /\ maxval = 50
    /\ counts = [i \in 0..2 |-> [j \in 0..2 |-> IF i = 1 /\ j = 1 THEN 3 ELSE 50]]
    /\ fraction = Rat[8, 9]

\* the cells of a field
Cells(f) == (0..(ShapeN(f) - 1)) \X (0..(ShapeM(f) - 1))

\* C11: for a field that has cells, julia_fraction returns (it raises only
\* for a field with no cell), and it returns exactly 1 when every cell equals
\* maxval and exactly 0 when no cell equals maxval.
C11_AllOrNone ==
    /\ fpc = "raised" => Cells(counts) = {}
    /\ fpc = "returned" =>
          /\ Cells(counts) # {}
          /\ (\A q \in Cells(counts) : counts[q[1]][q[2]] = maxval)
                => fraction = FromInt[1]
          /\ (\A q \in Cells(counts) : counts[q[1]][q[2]] # maxval)
                => fraction = FromInt[0]

C11_Witness ==
    /\ fpc = "returned"
    /\ nthreads >= 2
    /\ ShapeN(counts) >= 2
    /\ ShapeM(counts) >= 2
    /\ \A q \in Cells(counts) : counts[q[1]][q[2]] = maxval
    /\ fraction = FromInt[1]

\* the private totals not yet combined, of threads 0..(t - 1)
RECURSIVE PendingParts(_)
PendingParts(t) ==
    IF t = 0 THEN 0
    ELSE PendingParts(t - 1) +
         (IF t - 1 < nthreads /\ fwk[t - 1].pc = "run" THEN fwk[t - 1].part ELSE 0)

\* C12: the reduction loses nothing and does not depend on the order: at
\* every moment of the parallel loop the total plus the private totals not
\* yet combined is the serial count of the rows handed out so far, and when
\* the loop has ended (whatever thread ran which row, and in whatever order
\* the private totals were combined) the total is the total of the serial
\* double loop and the fraction is the serial fraction.
C12_ReductionOrderFree ==
    LET N == ShapeN(counts)
        M == ShapeM(counts)
    IN  /\ fpc = "join" =>
              total + PendingParts(MaxThreads)
                  = serial_total(counts, 0, IF fnext < N THEN fnext ELSE N, M, maxval, 0)
        /\ fpc \in {"returned", "raised"} =>
              total = serial_total(counts, 0, N, M, maxval, 0)
        /\ fpc = "returned" => fraction = julia_fraction_serial(counts, maxval)

C12_Witness ==
    /\ fpc = "returned"
    /\ \E t1 \in Team : \E t2 \in Team :
          /\ t1 # t2
          /\ fwk[t1].part > 0
          /\ fwk[t2].part > 0
          /\ total = fwk[t1].part + fwk[t2].part
    /\ fraction = julia_fraction_serial(counts, maxval)

\* |z|^2, computed from the parts
AbsSq(z) == RAdd[RMul[z.re, z.re], RMul[z.im, z.im]]

\* x^(2^k)
RECURSIVE PowSq(_, _)
PowSq(x, k) == IF k = 0 THEN x ELSE LET y == PowSq(x, k - 1) IN RMul[y, y]

One == FromInt[1]

CIsZero == c = Cplx[Zero, Zero]

\* C13 as stated: for c = 0 and valid arguments a cell holds a count below
\* n_max if and only if |z0| > 1, and n_max when |z0| <= 1.
C13_Original ==
    (pc = "returned" /\ ValidArgs /\ CIsZero) =>
        \A i \in Rows : \A j \in Rows :
            /\ (counts[i][j] < n_max) <=> RLess[One, AbsSq(SamplePoint(i, j))]
            /\ ~RLess[One, AbsSq(SamplePoint(i, j))] => counts[i][j] = n_max

\* C13 as amended: for c = 0 the recurrence is z <- z^2, so |z_k|^2 is
\* (|z0|^2)^(2^k) and a cell holds a count below n_max if and only if
\* (|z0|^2)^(2^k) >= z_max^2 for some k < n_max.  With z_max^2 > 1 every
\* point with |z0| <= 1 holds exactly n_max and every cell below n_max has
\* |z0| > 1; a point with |z0| > 1 that needs n_max or more squarings to
\* reach the radius holds n_max as well.
C13_SquaringOracle ==
    (pc = "returned" /\ CIsZero /\ resolution >= 1 /\ n_max >= 0) =>
        \A i \in Rows : \A j \in Rows :
            LET m == AbsSq(SamplePoint(i, j))
                zm2 == RMul[z_max, z_max]
            IN  /\ (counts[i][j] < n_max) <=>
                      \E k \in 0..(n_max - 1) : ~RLess[PowSq(m, k), zm2]
                /\ (RLess[One, zm2] /\ ~RLess[One, m]) => counts[i][j] = n_max
                /\ (RLess[One, zm2] /\ counts[i][j] < n_max) => RLess[One, m]

\* one field with an inside point at n_max, an outside point that escaped and
\* an outside point that holds n_max
C13_Witness ==
    /\ pc = "returned"
    /\ ValidArgs
    /\ CIsZero
    /\ \E i \in Rows : \E j \in Rows :
          ~RLess[One, AbsSq(SamplePoint(i, j))] /\ counts[i][j] = n_max
    /\ \E i \in Rows : \E j \in Rows :
          RLess[One, AbsSq(SamplePoint(i, j))] /\ counts[i][j] < n_max
    /\ \E i \in Rows : \E j \in Rows :
          RLess[One, AbsSq(SamplePoint(i, j))] /\ counts[i][j] = n_max

\* C14: with c = 0, bound = 1.5, z_max = 4.0 the cell (0, 0) is the point
\* -1.5-1.5i and holds exactly 1: in the fields the team computes (every
\* resolution >= 1 and n_max >= 1 drawn) and, for the arguments of the
\* scenario themselves (resolution = 4, n_max = 50), in the value the kernel
\* computes for that cell.
C14_CellZeroZero ==
    /\ (pc = "returned" /\ CIsZero /\ bound = Rat[3, 2] /\ z_max = FromInt[4]
            /\ resolution >= 1 /\ n_max >= 1) =>
          /\ SamplePoint(0, 0) = Cplx[Rat[0 - 3, 2], Rat[0 - 3, 2]]
          /\ counts[0][0] = 1
    /\ MakeZ(Coord(Rat[3, 2], 0, StepOf(Rat[3, 2], 4)),
             Coord(Rat[3, 2], 0, StepOf(Rat[3, 2], 4)))
          = Cplx[Rat[0 - 3, 2], Rat[0 - 3, 2]]
    /\ cell_value(4, Cplx[Zero, Zero], Rat[3, 2], FromInt[4], 50, 0, 0) = 1

C14_Witness ==
    /\ pc = "returned"
    /\ CIsZero
    /\ bound = Rat[3, 2]
    /\ z_max = FromInt[4]
    /\ resolution = 2
    /\ n_max = 2
    /\ nthreads >= 2
    /\ counts[0][0] = 1
    /\ nwrites[0][0] = 1

Expected(k) ==
    calc_julia_serial(jl[k].args.resolution, jl[k].args.c, jl[k].args.bound,
                      jl[k].args.z_max, jl[k].args.n_max)

\* the arrays returned so far are on distinct buffers, and each holds what
\* its own call computed, changed only where the caller changed that array
FreshFields ==
    /\ \A k \in 1..Len(jl) : \A m \in 1..Len(jl) : k # m => jl[k].ref # jl[m].ref
    /\ \A k \in 1..Len(jl) :
          /\ jl[k].ref \in DOMAIN heap
          /\ heap[jl[k].ref] =
                IF jl[k].written THEN [Expected(k) EXCEPT ![0][0] = 0 - 1]
                ELSE Expected(k)

\* a step leaves the caller's argument objects as they are during the call,
\* and leaves every array returned earlier as it is unless the step is the
\* caller's store into that very array
NoSharedState ==
    /\ cpc = "call" => cargs' = cargs
    /\ \A k \in 1..Len(jl) :
          /\ k \in 1..Len(jl')
          /\ jl'[k].args = jl[k].args
          /\ jl'[k].ref = jl[k].ref
          /\ jl'[k].written = jl[k].written => heap'[jl[k].ref] = heap[jl[k].ref]

\* C16: every call returns an array on a buffer of its own and keeps no
\* state: after any sequence of calls and of changes the caller makes to
\* returned arrays, each array holds what the serial version computes for
\* the arguments of its own call (apart from the caller's own change to that
\* array), so neither earlier calls nor changes to other arrays show in it;
\* the call leaves the caller's arguments unchanged.
C16_FreshField == [](FreshFields) /\ [][NoSharedState]_vars

\* the same arguments twice, the first array changed before the second call
C16_Witness ==
    /\ Len(jl) = 2
    /\ jl[1].args = jl[2].args
    /\ jl[1].written
    /\ ~jl[2].written
    /\ cargs = jl[2].args
    /\ heap[jl[2].ref] = Expected(2)
    /\ heap[jl[1].ref] # heap[jl[2].ref]

\* the sum of a set of integers
RECURSIVE SetSum(_)
SetSum(S) == IF S = {} THEN 0 ELSE LET x == CHOOSE y \in S : TRUE IN x + SetSum(S \ {x})

\* the private sums not yet combined, of threads 0..(t - 1)
RECURSIVE PendingSum(_)
PendingSum(t) ==
    IF t = 0 THEN 0
    ELSE PendingSum(t - 1) +
         (IF t - 1 < nthreads /\ sum_priv[t - 1].pc = "run" THEN sum_priv[t - 1].part ELSE 0)

\* C17: for every n, team size, schedule and interleaving, at every moment
\* of the loop sum plus the private sums not yet combined is the sum of the
\* indices run so far (each index is run once and no update is lost), the
\* loop ends with every index run and sum = n*(n-1)/2, and that is what is
\* printed: 435 for n = 30.
C17_PrangeSum ==
    /\ sum_pc = "join" =>
          /\ sum_todo \subseteq 0..(loop_n - 1)
          /\ sum + PendingSum(MaxThreads) = SetSum((0..(loop_n - 1)) \ sum_todo)
    /\ sum_pc \in {"print", "done"} =>
          /\ sum_todo = {}
          /\ 2 * sum = loop_n * (loop_n - 1)
    /\ sum_pc = "done" =>
          /\ 2 * printed = loop_n * (loop_n - 1)
          /\ loop_n = 30 => printed = 435

C17_Witness ==
    /\ sum_pc = "done"
    /\ loop_n = 30
    /\ nthreads >= 2
    /\ \A t \in Team : sum_priv[t].part > 0
    /\ printed = 435

\* the positions in out of the lines of one kind written by thread t
LinesBy(t, kind) == {k \in 1..Len(out) : out[k].by = t /\ out[k].line = kind}

TidTeam == {t \in TeamIds : tid_pc[t] # "idle"}

\* C18: a thread writes its "Number of threads" line, holding the team
\* size, before its "Thread ID" line; every "Thread ID" line holds the id of
\* the thread that wrote it; when the block has ended the ids written are
\* exactly 0..T-1, each once.  (The order of lines of different threads is
\* free: the witness is an output in which thread 1 is done before thread 0
\* has written anything.)
C18_ThreadIdLines ==
    /\ \A k \in 1..Len(out) :
          /\ out[k].by \in TidTeam
          /\ out[k].line = "Thread ID" => out[k].val = out[k].by
          /\ out[k].line = "Number of threads" => out[k].val = nthreads
    /\ \A t \in TidTeam :
          /\ Cardinality(LinesBy(t, "Number of threads"))
                = IF tid_pc[t] \in {"get_id", "print_id", "done"} THEN 1 ELSE 0
          /\ Cardinality(LinesBy(t, "Thread ID"))
                = IF tid_pc[t] = "done" THEN 1 ELSE 0
          /\ \A k \in LinesBy(t, "Thread ID") :
                \E m \in LinesBy(t, "Number of threads") : m < k
    /\ (TidTeam # {} /\ \A t \in TidTeam : tid_pc[t] = "done") =>
          /\ Len(out) = 2 * nthreads
          /\ {out[k].val : k \in {m \in 1..Len(out) : out[m].line = "Thread ID"}}
                = 0..(nthreads - 1)
          /\ \A v \in 0..(nthreads - 1) :
                Cardinality({k \in 1..Len(out) :
                                out[k].line = "Thread ID" /\ out[k].val = v}) = 1

C18_Witness ==
    /\ nthreads >= 2
    /\ \A t \in TidTeam : tid_pc[t] = "done"
    /\ Len(out) = 2 * nthreads
    /\ out[1].by = 1
    /\ out[2] = [line |-> "Thread ID", val |-> 1, by |-> 1]
    /\ out[3].by = 0

\* the Fibonacci numbers, in exact arithmetic: F(k) from the pair (F(m), F(m+1))
RECURSIVE FibFrom(_, _, _)
FibFrom(k, x, y) ==
    IF k = 0 THEN x
    ELSE LET s == ExactAdd(x, y)
         IN  IF s.lo >= 0 THEN FibFrom(k - 1, y, s) ELSE s

F40 == FibFrom(40, Whole(0), Whole(1))

F41 == FibFrom(41, Whole(0), Whole(1))

Fibonacci(k) == IF k <= 40 THEN FibFrom(k, Whole(0), Whole(1)) ELSE FibFrom(k - 40, F40, F41)

SameInAllVersions == fib_ret.c = fib_ret.py /\ fib_ret.cy = fib_ret.py

\* C19: for every n >= 0 the three versions return the n-th Fibonacci
\* number, the same value in all three, and 0 for n <= 0.
C19_Original ==
    fib_pc = "done" =>
        /\ SameInAllVersions
        /\ fib_n <= 0 => fib_ret.py = Whole(0)
        /\ fib_n >= 0 => fib_ret.py = Fibonacci(fib_n)

\* what does hold: the three versions return the same double for every n,
\* 0 for n <= 0, and the n-th Fibonacci number for 0 <= n <= 78; the 79th
\* Fibonacci number has more than 53 binary digits and fib(79) is not it
FibWhileExact ==
    fib_pc = "done" =>
        /\ SameInAllVersions
        /\ fib_n <= 0 => fib_ret.py = Whole(0)
        /\ (fib_n >= 0 /\ fib_n <= 78) => fib_ret.py = Fibonacci(fib_n)
        /\ fib_n = 79 => fib_ret.py # Fibonacci(79)

\* fib(79) has returned 14472334024676220 in the three versions; the 79th
\* Fibonacci number is 14472334024676221
C19_Witness ==
    /\ fib_pc = "done"
    /\ fib_n = 79
    /\ SameInAllVersions
    /\ fib_ret.py = [hi |-> 13478411, lo |-> 412914556]
    /\ Fibonacci(79) = [hi |-> 13478411, lo |-> 412914557]

BufTeam == {t \in TeamIds : buf_pc[t] # "idle"}

\* the pointer thread t uses
BufOf(t) == local_buf[BufSlot(t)]

Filled(b) == \A i \in 0..(BufSize - 1) : mem[b].data[i] = 2 * i

\* C20: every thread that passes the NULL test holds a block of its own,
\* live and never freed, for as long as it fills it, uses it in the prange
\* and until it frees it; the block is filled before it is used; a thread
\* whose malloc returned NULL aborts without touching a block; no block is
\* touched by a thread other than the one that allocated it; no block is
\* freed twice; and when the whole team is done every block has been freed
\* exactly once.
C20_LocalBuffers ==
    /\ \A t \in BufTeam :
          /\ buf_pc[t] \in {"fill", "loop", "barrier", "free"} =>
                /\ BufOf(t) # NULL
                /\ BufOf(t) \in DOMAIN mem
                /\ mem[BufOf(t)].owner = t
                /\ mem[BufOf(t)].state = "live"
                /\ mem[BufOf(t)].frees = 0
          /\ buf_pc[t] \in {"loop", "barrier", "free"} => Filled(BufOf(t))
          /\ buf_pc[t] = "done" =>
                /\ mem[BufOf(t)].owner = t
                /\ mem[BufOf(t)].state = "freed"
                /\ mem[BufOf(t)].frees = 1
          /\ buf_pc[t] = "aborted" =>
                /\ aborted
                /\ BufOf(t) = NULL
                /\ \A b \in DOMAIN mem : mem[b].owner # t
    /\ \A b \in DOMAIN mem :
          /\ mem[b].by \subseteq {mem[b].owner}
          /\ mem[b].frees <= 1
          /\ (mem[b].state = "freed") = (mem[b].frees = 1)
          /\ \A b2 \in DOMAIN mem : b # b2 => mem[b].owner # mem[b2].owner
    /\ aborted => \E t \in BufTeam : buf_pc[t] = "aborted"
    /\ (BufTeam # {} /\ \A t \in BufTeam : buf_pc[t] = "done") =>
          /\ Len(mem) = nthreads
          /\ buf_todo = {}
          /\ \A b \in DOMAIN mem : mem[b].state = "freed" /\ mem[b].frees = 1

\* a team of two or more is done: every thread filled, used and freed its own
\* block
C20_Witness ==
    /\ nthreads >= 2
    /\ \A t \in BufTeam : buf_pc[t] = "done"
    /\ Len(mem) = nthreads
    /\ \A b \in DOMAIN mem :
          /\ mem[b].frees = 1
          /\ mem[b].by = {mem[b].owner}
          /\ Filled(b)
    /\ buf_todo = {}
    /\ ~aborted

\* the step is taken inside the prange region of calc_julia
InRegion == pc = "join" /\ pc' = "join"

\* C21: real, imag, z and the inner index j (and i) are private to each
\* thread: a step of one thread in the prange region leaves every other
\* thread's i, j, real, imag and z as they were, whatever the interleaving;
\* so a thread working on cell (i, j) holds the real and imag of (i, j), the
\* value it passes to escape is the sample point of (i, j), and escape's z is
\* that point's orbit.
C21_PrivateTemporaries ==
    /\ [](\A t \in Team :
            wk[t].pc = "loop" =>
                LET w == wk[t]
                    p == SamplePoint(w.i, w.j)
                IN  /\ w.real = p.re
                    /\ w.imag = p.im
                    /\ w.n = 0 => w.z = p
                    /\ w.z = Orbit(p, w.n))
    /\ [][\A t \in Threads :
            (InRegion /\ wk'[t] # wk[t]) =>
                /\ \A u \in Threads \ {t} : wk'[u] = wk[u]
                /\ (wk'[t].pc = "loop" /\ wk'[t].n = 0) =>
                      wk'[t].z = MakeZ(Coord(bound, wk'[t].i, step),
                                       Coord(bound, wk'[t].j, step))]_vars

\* two threads inside escape on different rows, one of them past its first
\* column and at escape's entry: its z is built from its own row's real
C21_Witness ==
    \E t1 \in Team : \E t2 \in Team :
        /\ t1 # t2
        /\ wk[t1].pc = "loop"
        /\ wk[t2].pc = "loop"
        /\ wk[t1].real # wk[t2].real
        /\ wk[t2].j >= 1
        /\ wk[t2].n = 0
        /\ wk[t2].z = SamplePoint(wk[t2].i, wk[t2].j)

\* none of z_0 .. z_{n_max - 1} of the point fails the continue test
NeverFailsBefore(z0) == \A k \in 0..(n_max - 1) : Inside(Orbit(z0, k))

\* the trajectory of the point first leaves the bound at z_{n_max}
LeavesAtCap(z0) == NeverFailsBefore(z0) /\ ~Inside(Orbit(z0, n_max))

\* the cells julia_fraction counts when it is given maxval = n_max
CappedCells == {q \in Rows \X Rows : NeverFailsBefore(SamplePoint(q[1], q[2]))}

\* C22: the value after the n_max-th application of the recurrence does not
\* decide anything: a thread whose escape counter has reached n_max returns
\* n_max whether or not its z is still inside; a cell holds n_max exactly when
\* none of z_0 .. z_{n_max - 1} fails the continue test (n_max >= 0), so a
\* point that first leaves the bound at z_{n_max} holds n_max like a point
\* that never leaves; and julia_fraction with maxval = n_max counts exactly
\* those cells.
C22_FinalValueUntested ==
    /\ [](/\ (pc = "returned" /\ resolution >= 1 /\ n_max >= 0) =>
               \A i \in Rows : \A j \in Rows :
                   /\ (counts[i][j] = n_max) <=> NeverFailsBefore(SamplePoint(i, j))
                   /\ LeavesAtCap(SamplePoint(i, j)) => Matches(counts[i][j], n_max)
           /\ (fpc = "returned" /\ resolution >= 1 /\ n_max >= 0) =>
               /\ maxval = n_max
               /\ total = Cardinality(CappedCells)
               /\ fraction = Rat[Cardinality(CappedCells), (resolution + 1) * (resolution + 1)])
    /\ [][\A t \in Threads :
            (pc = "join" /\ wk[t].pc = "loop" /\ wk[t].n = n_max /\ wk'[t] # wk[t]) =>
                /\ Stops(t)
                /\ counts'[wk[t].i][wk[t].j] = n_max]_vars

\* julia_fraction has returned for a field with a cell whose point first
\* leaves the bound at z_{n_max} and a cell whose point is still inside then;
\* both hold n_max and both were counted
C22_Witness ==
    /\ fpc = "returned"
    /\ n_max >= 1
    /\ nthreads >= 2
    /\ \E i \in Rows : \E j \in Rows :
          /\ LeavesAtCap(SamplePoint(i, j))
          /\ counts[i][j] = n_max
    /\ \E i \in Rows : \E j \in Rows :
          /\ NeverFailsBefore(SamplePoint(i, j))
          /\ Inside(Orbit(SamplePoint(i, j), n_max))
          /\ counts[i][j] = n_max
    /\ \E i \in Rows : \E j \in Rows : counts[i][j] < n_max
    /\ total = Cardinality(CappedCells)
    /\ total >= 2

\* 2 * bound^2 < z_max^2: the corners of the square are inside the radius
SquareInside(b, zm) == RLess[RMul[FromInt[2], RMul[b, b]], RMul[zm, zm]]

\* C23: a stored cell holds 0 if and only if its sample point already fails
\* the continue test (norm2(z0) >= z_max^2) or n_max <= 0; so whenever
\* 2 * bound^2 < z_max^2 and n_max >= 1, as for the defaults bound = 1.5 and
\* z_max = 4.0, every cell of the returned field is in 1..n_max.
C23_ZeroCells ==
    /\ Allocated =>
          \A i \in Rows : \A j \in Rows :
              nwrites[i][j] = 1 =>
                  ((counts[i][j] = 0) <=>
                      (~RLess[norm2(SamplePoint(i, j)), RMul[z_max, z_max]] \/ n_max <= 0))
    /\ (pc = "returned" /\ SquareInside(bound, z_max) /\ n_max >= 1) =>
          \A i \in Rows : \A j \in Rows : counts[i][j] \in 1..n_max
    /\ SquareInside(Rat[3, 2], FromInt[4])

\* a returned field of a call with n_max >= 1 in which the corner holds 0,
\* its point being outside the radius, and another cell does not
C23_Witness ==
    /\ pc = "returned"
    /\ n_max >= 1
    /\ resolution >= 2
    /\ ~SquareInside(bound, z_max)
    /\ Positive(z_max)
    /\ counts[0][0] = 0
    /\ ~RLess[norm2(SamplePoint(0, 0)), RMul[z_max, z_max]]
    /\ \E i \in Rows : \E j \in Rows :
          /\ counts[i][j] >= 1
          /\ RLess[norm2(SamplePoint(i, j)), RMul[z_max, z_max]]

\* the cell-wise minimum of a cap and a count
CapAt(N, v) == IF v < N THEN v ELSE N

\* the value of cell (i, j) for the arguments of the call with the cap N
WithCap(N, i, j) == cell_value(resolution, c, bound, z_max, N, i, j)

\* C24: raising the cap only changes capped cells.  For the field the team
\* returns with cap n_max and every other cap N of the same call (same
\* resolution, bound, c and z_max; caps are not negative): with N <= n_max
\* the field for cap N is the cell-wise minimum of N and the returned field;
\* with n_max <= N the returned field is the cell-wise minimum of n_max and
\* the field for cap N.
C24_CapMonotone ==
    (pc = "returned" /\ n_max >= 0) =>
        \A N \in 0..MaxIter : \A i \in Rows : \A j \in Rows :
            /\ N <= n_max => WithCap(N, i, j) = CapAt(N, counts[i][j])
            /\ n_max <= N => counts[i][j] = CapAt(n_max, WithCap(N, i, j))

\* a returned field with cap MaxIter in which one cell is capped, and
\* holds less with the cap lowered by one, while another cell is below both
\* caps and holds the same with either
C24_Witness ==
    /\ pc = "returned"
    /\ n_max = MaxIter
    /\ nthreads >= 2
    /\ \E i \in Rows : \E j \in Rows :
          /\ counts[i][j] = n_max
          /\ WithCap(n_max - 1, i, j) = n_max - 1
    /\ \E i \in Rows : \E j \in Rows :
          /\ counts[i][j] < n_max - 1
          /\ WithCap(n_max - 1, i, j) = counts[i][j]

====
